---- MODULE Spec2Model ----
(***************************************************************************)
(* mbuild Port (src/mbuild/port.py): a connector made of two four-point    *)
(* ghost sub-frames "up" and "down", an anchor reference and a "used"      *)
(* flag.  The module models Port.__init__, Port._clone, Port.center and    *)
(* Port.direction on a heap of Compound/Particle nodes.                    *)
(*                                                                         *)
(* Numbers.  Coordinates are exact rationals <<n, d>> in lowest terms      *)
(* (d > 0); the length unit is 0.0025 nm, so the canonical ghost offsets   *)
(* of port.py are integers.  Orientations and rotation axes are drawn      *)
(* from vectors whose norms and rotation sines are rational, so every      *)
(* rigid transform is computed exactly; numpy's allclose is modelled by    *)
(* exact equality (all values of the model differ by far more than the     *)
(* tolerance).  An angle is the pair [cos, sin].                           *)
(***************************************************************************)
EXTENDS Integers, Sequences, FiniteSets, TLC

VARIABLES
    nodes,      \* the heap: node id (1..Len) -> node record
    port,       \* id of the Port built by the constructor, 0 before
    copy,       \* id returned by the last clone(), 0 before
    clone_of,   \* the identity map of the last clone() call
    base,       \* size of the heap just before the last clone() call
    err,        \* exception raised by the last call, "none" if it returned
    last,       \* the last call: [op, on, arg]
    args,       \* the arguments of the last Port(...) call
    nops        \* calls made after construction

vars == <<nodes, port, copy, clone_of, base, err, last, args, nops>>

-----------------------------------------------------------------------------
(* Bounds of the model *)

MaxOps == 2
MaxPorts == 2
RecursionLimit == 12

-----------------------------------------------------------------------------
(* Exact rational arithmetic (numpy float arithmetic, without rounding) *)

Abs(x) == IF x < 0 THEN -x ELSE x

RECURSIVE GCD(_, _)
GCD(a, b) == IF b = 0 THEN a ELSE GCD(b, a % b)

Q(n, d) ==
    IF n = 0 THEN <<0, 1>>
    ELSE LET g == GCD(Abs(n), Abs(d))
             s == IF d < 0 THEN -1 ELSE 1
         IN <<(s * n) \div g, (s * d) \div g>>

QAdd(a, b) ==
    LET g == GCD(a[2], b[2])
    IN Q(a[1] * (b[2] \div g) + b[1] * (a[2] \div g), (a[2] \div g) * b[2])
QNeg(a) == <<-a[1], a[2]>>
QSub(a, b) == QAdd(a, QNeg(b))
QMul(a, b) ==
    LET g == GCD(Abs(a[1]), b[2])
        k == GCD(Abs(b[1]), a[2])
    IN Q((a[1] \div g) * (b[1] \div k), (a[2] \div k) * (b[2] \div g))
QDiv(a, b) == Q(a[1] * b[2], a[2] * b[1])
QInt(n) == <<n, 1>>

RECURSIVE SqrtIter(_, _, _)
SqrtIter(n, lo, hi) ==
    IF hi - lo <= 1 THEN lo
    ELSE LET mid == (lo + hi) \div 2
         IN IF mid * mid <= n THEN SqrtIter(n, mid, hi) ELSE SqrtIter(n, lo, mid)

ISqrt(n) == SqrtIter(n, 0, IF n + 1 < 46341 THEN n + 1 ELSE 46341)

QSqrt(a) == <<ISqrt(a[1]), ISqrt(a[2])>>

V(x, y, z) == <<QInt(x), QInt(y), QInt(z)>>
Zero == V(0, 0, 0)
VAdd(a, b) == <<QAdd(a[1], b[1]), QAdd(a[2], b[2]), QAdd(a[3], b[3])>>
VSub(a, b) == <<QSub(a[1], b[1]), QSub(a[2], b[2]), QSub(a[3], b[3])>>
VNeg(a) == <<QNeg(a[1]), QNeg(a[2]), QNeg(a[3])>>
VScale(q, a) == <<QMul(q, a[1]), QMul(q, a[2]), QMul(q, a[3])>>
Dot(a, b) == QAdd(QMul(a[1], b[1]), QAdd(QMul(a[2], b[2]), QMul(a[3], b[3])))
Cross(a, b) ==
    <<QSub(QMul(a[2], b[3]), QMul(a[3], b[2])),
      QSub(QMul(a[3], b[1]), QMul(a[1], b[3])),
      QSub(QMul(a[1], b[2]), QMul(a[2], b[1]))>>
norm(a) == QSqrt(Dot(a, a))

RECURSIVE VSum(_, _)
VSum(vs, i) == IF i > Len(vs) THEN Zero ELSE VAdd(vs[i], VSum(vs, i + 1))

\* np.mean(xyz, axis=0)
Mean(vs) == VScale(Q(1, Len(vs)), VSum(vs, 1))

\* np.allclose(a, b)
AllClose(a, b) == a = b

-----------------------------------------------------------------------------
(* VectorMath (mbuild.coordinate_transform) *)

\* unit_vector and rotation_matrix fail on a (near-)zero vector
Degenerate(v) == v = Zero

unit_vector(v) == VScale(QDiv(QInt(1), norm(v)), v)

\* arccos(clamp(unit_vector(a) . unit_vector(b))), in [0, pi]: sin >= 0
angle(a, b) ==
    LET c == Dot(unit_vector(a), unit_vector(b))
    IN [cos |-> c, sin |-> QSqrt(QSub(QInt(1), QMul(c, c)))]

Pi == [cos |-> QInt(-1), sin |-> QInt(0)]
HalfPi == [cos |-> QInt(0), sin |-> QInt(1)]

\* Rodrigues: R v = cos v + sin (k x v) + (1 - cos) (k . v) k, k = unit_vector(axis)
RotatePoint(theta, k, v) ==
    VAdd(VScale(theta.cos, v),
         VAdd(VScale(theta.sin, Cross(k, v)),
              VScale(QMul(QSub(QInt(1), theta.cos), Dot(k, v)), k)))

-----------------------------------------------------------------------------
(* Particle and Compound (mbuild.compound) *)

Node(kind, name, pos, ghost) ==
    [kind |-> kind, name |-> name, pos |-> pos, port_particle |-> ghost,
     children |-> <<>>, labels |-> <<>>, parent |-> 0, anchor |-> 0,
     used |-> FALSE]

Particle(name, pos, ghost) == Node("Particle", name, pos, ghost)
Compound(name, ghost) == Node("Compound", name, Zero, ghost)

\* The state threaded through a call: heap, identity map, exception, return value
Call(h) == [h |-> h, m |-> <<>>, err |-> "none", ret |-> 0]

New(st, node) == [st EXCEPT !.h = Append(st.h, node), !.ret = Len(st.h) + 1]

\* Compound.add(new_child, label)
add(st, parent, child, label) ==
    [st EXCEPT !.h = [st.h EXCEPT ![parent].children = Append(@, child),
                                  ![parent].labels = Append(@, label),
                                  ![child].parent = parent]]

\* The particles below the nodes of todo, pre-order over insertion-ordered children
RECURSIVE particles(_, _)
particles(h, todo) ==
    IF todo = <<>> THEN <<>>
    ELSE LET x == Head(todo)
         IN IF h[x].kind = "Particle"
            THEN <<x>> \o particles(h, Tail(todo))
            ELSE particles(h, h[x].children \o Tail(todo))

\* Compound.xyz_with_ports
RECURSIVE positions(_, _)
positions(h, ps) ==
    IF ps = <<>> THEN <<>> ELSE <<h[Head(ps)].pos>> \o positions(h, Tail(ps))

xyz_with_ports(h, self) == positions(h, particles(h, <<self>>))

Raise(st, what) == [st EXCEPT !.err = what]

\* self.xyz_with_ports = Translation(by).apply_to(self.xyz_with_ports)
RECURSIVE translate_all(_, _, _)
translate_all(h, ps, by) ==
    IF ps = <<>> THEN h
    ELSE translate_all([h EXCEPT ![Head(ps)].pos = VAdd(@, by)], Tail(ps), by)

\* Compound.translate(by)
translate(st, self, by) ==
    IF st.err # "none" THEN st
    ELSE [st EXCEPT !.h = translate_all(st.h, particles(st.h, <<self>>), by)]

\* self.xyz_with_ports = Rotation(theta, around).apply_to(self.xyz_with_ports)
RECURSIVE rotate_all(_, _, _, _)
rotate_all(h, ps, theta, k) ==
    IF ps = <<>> THEN h
    ELSE rotate_all([h EXCEPT ![Head(ps)].pos = RotatePoint(theta, k, @)],
                    Tail(ps), theta, k)

\* Compound.rotate(theta, around): about the coordinate origin
rotate(st, self, theta, around) ==
    IF st.err # "none" THEN st
    ELSE IF Degenerate(around) THEN Raise(st, "DegenerateVectorError")
    ELSE [st EXCEPT !.h = rotate_all(st.h, particles(st.h, <<self>>), theta,
                                     unit_vector(around))]

-----------------------------------------------------------------------------
(* Port.center and Port.direction *)

\* A plausible slip: the mean taken without axis=0 (one scalar for all coordinates)
center_no_axis(h, self) ==
    LET xyz == xyz_with_ports(h, self)
        m == Mean(xyz)
        s == QMul(Q(1, 3), QAdd(m[1], QAdd(m[2], m[3])))
    IN <<s, s, s>>

center(h, self) == Mean(xyz_with_ports(h, self))

direction(h, self) ==
    LET xyz == xyz_with_ports(h, self)
    IN unit_vector(VSub(xyz[2], xyz[1]))

\* Compound.translate_to(pos): self.translate(pos - self.center)
translate_to(st, self, pos) ==
    IF st.err # "none" THEN st
    ELSE translate(st, self, VSub(pos, center(st.h, self)))

-----------------------------------------------------------------------------------------------------------------------------------------------------
(* clone (mbuild.clone / Compound._clone) and Port._clone *)

RECURSIVE dispatch_clone(_, _, _)

\* newone.children.add(newchild); newchild.parent = newone (the label is copied alike)
AddCloned(st, newone, label) ==
    IF st.err # "none" THEN st ELSE add(st, newone, st.ret, label)

\* for child in self.children: newchild = child._clone(clone_of, root_container); ...
RECURSIVE clone_children(_, _, _, _, _)
clone_children(st, self, newone, i, depth) ==
    IF st.err # "none" \/ i > Len(st.h[self].children) THEN st
    ELSE clone_children(
             AddCloned(dispatch_clone(st, st.h[self].children[i], depth + 1),
                       newone, st.h[self].labels[i]),
             self, newone, i + 1, depth)

\* newone = cls.__new__(cls), with the name, position and ghost flag of self
Blank(node) ==
    [node EXCEPT !.children = <<>>, !.labels = <<>>, !.parent = 0, !.anchor = 0,
                 !.used = FALSE]

\* clone_of[self] = newone
Register(st, self) == [st EXCEPT !.m = (self :> st.ret) @@ @]

Return(st, x) == IF st.err # "none" THEN st ELSE [st EXCEPT !.ret = x]

\* Compound._clone(clone_of, root_container): the structural copy.  A node
\* already in the identity map is not copied again; a new copy is recorded in
\* the map before its children are copied.
Compound_clone(st, self, depth) ==
    IF st.err # "none" THEN st
    ELSE IF self \in DOMAIN st.m THEN [st EXCEPT !.ret = st.m[self]]
    ELSE Return(clone_children(Register(New(st, Blank(st.h[self])), self),
                               self, Len(st.h) + 1, 1, depth),
                Len(st.h) + 1)

\* clone(existing_compound, clone_of, root_container); a missing reference
\* (None) has nothing to copy
clone(st, existing, depth) ==
    IF st.err # "none" THEN st
    ELSE IF existing = 0 THEN [st EXCEPT !.ret = 0]
    ELSE dispatch_clone(st, existing, depth)

\* newone.anchor = <the value returned by clone>; newone.used = self.used
SetCloned(st, self, anchor, used) ==
    IF st.err # "none" THEN st
    ELSE [st EXCEPT !.h[st.m[self]].anchor = anchor,
                    !.h[st.m[self]].used = used,
                    !.ret = st.m[self]]

\* Mutant: the anchor reference is copied as it is
Port_clone_alias(st, self, depth) ==
    SetCloned(Compound_clone(st, self, depth), self, st.h[self].anchor,
              st.h[self].used)

\* A copy of the Port object alone, holding the children of the original
ShallowCopy(st, self) ==
    IF self \in DOMAIN st.m THEN st
    ELSE Register(New(st, [st.h[self] EXCEPT !.parent = 0]), self)

SetClonedAnchor(st, self) == SetCloned(st, self, st.ret, st.h[self].used)

\* Mutant: a shallow copy of the Port, sharing the children of the original
Port_clone_shallow(st, self, depth) ==
    SetClonedAnchor(clone(ShallowCopy(st, self), st.h[self].anchor, depth + 1), self)

ForgetMap(st) == [st EXCEPT !.m = <<>>]
RestoreMap(st, m) == [st EXCEPT !.m = m]

\* Mutant: the anchor is cloned with an identity map of its own
Port_clone_own_map(st, self, depth) ==
    SetClonedAnchor(
        RestoreMap(clone(ForgetMap(Compound_clone(st, self, depth)),
                         st.h[self].anchor, depth + 1),
                   Compound_clone(st, self, depth).m),
        self)

SetClonedUnused(st, self) == SetCloned(st, self, st.ret, FALSE)

\* Mutant: "used" is not carried over
Port_clone_unused(st, self, depth) ==
    SetClonedUnused(clone(Compound_clone(st, self, depth), st.h[self].anchor,
                          depth + 1),
                    self)

\* Port._clone(clone_of, root_container)
Port_clone(st, self, depth) ==
    SetClonedAnchor(clone(Compound_clone(st, self, depth), st.h[self].anchor,
                          depth + 1),
                    self)

\* x._clone(...): dispatch on the class of x, within the interpreter's recursion limit
dispatch_clone(st, x, depth) ==
    IF st.err # "none" THEN st
    ELSE IF depth > RecursionLimit THEN Raise(st, "RecursionError")
    ELSE IF st.h[x].kind = "Port" THEN Port_clone(st, x, depth)
    ELSE Compound_clone(st, x, depth)

-----------------------------------------------------------------------------
(* Port.__init__ *)

default_direction == V(0, 1, 0)
ZAxis == V(0, 0, 1)

\* The canonical ghost offsets, in units of 0.0025
MiddlePos == V(2, 1, -1)
TopPos == V(2, 9, -1)
LeftPos == V(-6, -3, -1)
RightPos == V(2, -7, 3)

\* parent.add(Particle(name='G', pos=pos, port_particle=True), label)
AddGhost(st, parent, pos, label) ==
    add(New(st, Particle("G", pos, TRUE)), parent, Len(st.h) + 1, label)

\* up = Compound(name='subport', port_particle=True) and its four particles
\* (returns up)
MakeUp(st) ==
    Return(AddGhost(AddGhost(AddGhost(AddGhost(New(st, Compound("subport", TRUE)),
                                               Len(st.h) + 1, MiddlePos, "middle"),
                                      Len(st.h) + 1, TopPos, "top"),
                             Len(st.h) + 1, LeftPos, "left"),
                    Len(st.h) + 1, RightPos, "right"),
           Len(st.h) + 1)

\* self.add(first, ...); self.add(second, ...); self.used = False (returns down)
AddFrames(st, self, first, flabel, second, slabel, down) ==
    [add(add(st, self, first, flabel), self, second, slabel)
        EXCEPT !.h[self].used = FALSE, !.ret = down]

\* Mutant: the sub-frames are added in the other order
Frames_down_first(st, self) ==
    AddFrames(RestoreMap(clone(ForgetMap(MakeUp(st)), Len(st.h) + 1, 1), st.m),
              self, Len(st.h) + 6, "down", Len(st.h) + 1, "up", Len(st.h) + 6)

\* up = ...; down = clone(up); self.add(up, 'up'); self.add(down, 'down');
\* self.used = False.  up is the node after the heap of st, down the node after
\* up and its four particles.
Frames(st, self) ==
    AddFrames(RestoreMap(clone(ForgetMap(MakeUp(st)), Len(st.h) + 1, 1), st.m),
              self, Len(st.h) + 1, "up", Len(st.h) + 6, "down", Len(st.h) + 6)

\* Mutant: the antiparallel branch turns only "down"
Align_no_flip(st, self, down, orientation) ==
    IF st.err # "none" THEN st
    ELSE IF Degenerate(VNeg(orientation)) THEN Raise(st, "DegenerateVectorError")
    ELSE IF AllClose(default_direction, unit_vector(VNeg(orientation)))
    THEN rotate(st, down, Pi, ZAxis)
    ELSE IF AllClose(default_direction, unit_vector(orientation))
    THEN rotate(st, down, Pi, ZAxis)
    ELSE rotate(rotate(st, self, angle(default_direction, orientation),
                       Cross(default_direction, orientation)),
                down, Pi, Cross(default_direction, orientation))

\* Mutant: the general branch turns the whole Port by pi, not "down" alone
Align_flip_all(st, self, down, orientation) ==
    IF st.err # "none" THEN st
    ELSE IF Degenerate(VNeg(orientation)) THEN Raise(st, "DegenerateVectorError")
    ELSE IF AllClose(default_direction, unit_vector(VNeg(orientation)))
    THEN rotate(rotate(st, down, Pi, ZAxis), self, Pi, ZAxis)
    ELSE IF AllClose(default_direction, unit_vector(orientation))
    THEN rotate(st, down, Pi, ZAxis)
    ELSE rotate(rotate(st, self, angle(default_direction, orientation),
                       Cross(default_direction, orientation)),
                self, Pi, Cross(default_direction, orientation))

\* Mutant: the antiparallel test is made without the minus sign
Align_no_minus(st, self, down, orientation) ==
    IF st.err # "none" THEN st
    ELSE IF Degenerate(orientation) THEN Raise(st, "DegenerateVectorError")
    ELSE IF AllClose(default_direction, unit_vector(orientation))
    THEN rotate(rotate(st, down, Pi, ZAxis), self, Pi, ZAxis)
    ELSE IF AllClose(default_direction, unit_vector(orientation))
    THEN rotate(st, down, Pi, ZAxis)
    ELSE rotate(rotate(st, self, angle(default_direction, orientation),
                       Cross(default_direction, orientation)),
                down, Pi, Cross(default_direction, orientation))

\* The three alignment branches of the constructor; normal is
\* np.cross(default_direction, orientation)
Align(st, self, down, orientation) ==
    IF st.err # "none" THEN st
    ELSE IF Degenerate(VNeg(orientation)) THEN Raise(st, "DegenerateVectorError")
    ELSE IF AllClose(default_direction, unit_vector(VNeg(orientation)))
    THEN rotate(rotate(st, down, Pi, ZAxis), self, Pi, ZAxis)
    ELSE IF AllClose(default_direction, unit_vector(orientation))
    THEN rotate(st, down, Pi, ZAxis)
    ELSE rotate(rotate(st, self, angle(default_direction, orientation),
                       Cross(default_direction, orientation)),
                down, Pi, Cross(default_direction, orientation))

\* if anchor: self.translate_to(anchor.pos)
ToAnchor(st, self, anchor) ==
    IF st.err # "none" \/ anchor = 0 THEN st
    ELSE translate_to(st, self, st.h[anchor].pos)

\* Mutant: the separation is applied along the orientation as given
Place_not_unit(st, self, anchor, orientation, separation) ==
    IF st.err # "none" THEN st
    ELSE translate(ToAnchor(st, self, anchor), self, VScale(separation, orientation))

\* if anchor: self.translate_to(anchor.pos)
\* self.translate(separation*unit_vector(orientation))
Place(st, self, anchor, orientation, separation) ==
    IF st.err # "none" THEN st
    ELSE translate(ToAnchor(st, self, anchor), self,
                   VScale(separation, unit_vector(orientation)))

\* orientation=None is written <<>>
Orient(orientation) == IF orientation = <<>> THEN V(0, 1, 0) ELSE orientation

\* super().__init__(name='Port', port_particle=True); self.anchor = anchor
NewPort(st, anchor) ==
    New(st, [Node("Port", "Port", Zero, TRUE) EXCEPT !.anchor = anchor])

\* Frames leaves down as the returned value
AlignFrames(st, self, orientation) == Align(st, self, st.ret, orientation)

\* Port(anchor, orientation, separation): returns the new Port, the node after
\* the heap of st
Port_init(st, anchor, orientation, separation) ==
    Return(Place(AlignFrames(Frames(NewPort(st, anchor), Len(st.h) + 1),
                             Len(st.h) + 1, Orient(orientation)),
                 Len(st.h) + 1, anchor, Orient(orientation), separation),
           Len(st.h) + 1)

-----
(* The life of one Port: construction, rigid transforms, "used", clone *)

\* Position of the particle offered as anchor
AnchorPos == V(4, -8, 12)

Anchors == {0, 1}
Orientations ==
    {<<>>, V(0, 3, 0), V(0, -1, 0), Zero, V(1, 0, 0), V(3, 4, 0), V(0, -3, 4),
     V(3, 12, 4), V(4, -12, -3)}
Separations == {QInt(-3), QInt(0), Q(5, 2)}
Turns == {<<HalfPi, V(1, 0, 0)>>, <<Pi, V(0, 3, 4)>>}
Shifts == {V(1, -2, 0)}
Targets == {V(0, 0, 0), V(-5, 7, 2)}

NoCall == [op |-> "none", on |-> 0, arg |-> Zero]

Init ==
    /\ nodes = <<Particle("C", AnchorPos, FALSE)>>
    /\ port = 0
    /\ copy = 0
    /\ clone_of = <<>>
    /\ base = 0
    /\ err = "none"
    /\ last = NoCall
    /\ args = [anchor |-> 0, orientation |-> <<>>, separation |-> QInt(0)]
    /\ nops = 0

\* p = Port(anchor, orientation, separation)
Construct(anchor, orientation, separation) ==
    LET r == Port_init(Call(nodes), anchor, orientation, separation)
    IN /\ port = 0
       /\ args' = [anchor |-> anchor, orientation |-> orientation,
                   separation |-> separation]
       /\ last' = [op |-> "Port", on |-> 0, arg |-> Zero]
       /\ err' = r.err
       /\ nodes' = IF r.err = "none" THEN r.h ELSE nodes
       /\ port' = IF r.err = "none" THEN r.ret ELSE 0
       /\ UNCHANGED <<copy, clone_of, base, nops>>

\* The Ports a caller holds
Held == {port, copy} \ {0}

Finish(r, op, on, arg) ==
    /\ nops < MaxOps
    /\ nops' = nops + 1
    /\ err' = r.err
    /\ nodes' = IF r.err = "none" THEN r.h ELSE nodes
    /\ last' = [op |-> op, on |-> on, arg |-> arg]
    /\ UNCHANGED <<port, copy, clone_of, base, args>>

\* on.rotate(theta, around)
Rotate(on, theta, around) ==
    /\ on \in Held
    /\ Finish(rotate(Call(nodes), on, theta, around), "rotate", on, around)

\* on.translate(by)
Translate(on, by) ==
    /\ on \in Held
    /\ Finish(translate(Call(nodes), on, by), "translate", on, by)

\* on.translate_to(pos)
TranslateTo(on, pos) ==
    /\ on \in Held
    /\ Finish(translate_to(Call(nodes), on, pos), "translate_to", on, pos)

\* on.used = b
SetUsed(on, b) ==
    /\ on \in Held
    /\ Finish([Call(nodes) EXCEPT !.h[on].used = b], "used", on, Zero)

\* c = clone(p)
Clone ==
    LET r == clone(Call(nodes), port, 1)
    IN /\ port # 0
       /\ copy = 0
       /\ err' = r.err
       /\ nodes' = IF r.err = "none" THEN r.h ELSE nodes
       /\ copy' = IF r.err = "none" THEN r.ret ELSE 0
       /\ clone_of' = r.m
       /\ base' = Len(nodes)
       /\ last' = [op |-> "clone", on |-> port, arg |-> Zero]
       /\ UNCHANGED <<port, args, nops>>

Next ==
    \/ \E a \in Anchors, o \in Orientations, s \in Separations : Construct(a, o, s)
    \/ \E on \in Held, t \in Turns : Rotate(on, t[1], t[2])
    \/ \E on \in Held, by \in Shifts : Translate(on, by)
    \/ \E on \in Held, pos \in Targets : TranslateTo(on, pos)
    \/ \E on \in Held, b \in BOOLEAN : SetUsed(on, b)
    \/ Clone

Spec == Init /\ [][Next]_vars

-----------------------------------------------------------------------------
(* Trees holding Ports and their anchors, and clone() of a subtree *)

PortAnchors == {0, 1, 3, 4}

\* root (1) holding sub (2); the particles A (3) and E (4) belong to no tree yet
TreeHeap ==
    add(New(New(New(New(Call(<<>>), Compound("root", FALSE)),
                    Compound("sub", FALSE)),
                Particle("A", V(1, 2, 3), FALSE)),
            Particle("E", V(-4, 0, 5), FALSE)),
        1, 2, "sub").h

TreeInit ==
    /\ nodes = TreeHeap
    /\ port = 0
    /\ copy = 0
    /\ clone_of = <<>>
    /\ base = 0
    /\ err = "none"
    /\ last = NoCall
    /\ args = [anchor |-> 0, orientation |-> <<>>, separation |-> QInt(0)]
    /\ nops = 0

PortsOf(h) == {n \in 1..Len(h) : h[n].kind = "Port"}

\* parent.add(A, 'A')
TAdd(parent) ==
    /\ copy = 0
    /\ nodes[3].parent = 0
    /\ nodes' = add(Call(nodes), parent, 3, "A").h
    /\ last' = [op |-> "add", on |-> parent, arg |-> Zero]
    /\ UNCHANGED <<port, copy, clone_of, base, err, args, nops>>

\* parent.add(Port(anchor=anchor))
TNewPort(parent, anchor) ==
    /\ copy = 0
    /\ Cardinality(PortsOf(nodes)) < MaxPorts
    /\ nodes' = add(Port_init(Call(nodes), anchor, <<>>, QInt(0)), parent,
                    Len(nodes) + 1, "").h
    /\ port' = Len(nodes) + 1
    /\ args' = [anchor |-> anchor, orientation |-> <<>>, separation |-> QInt(0)]
    /\ last' = [op |-> "Port", on |-> parent, arg |-> Zero]
    /\ UNCHANGED <<copy, clone_of, base, err, nops>>

\* c = clone(target)
TClone(target) ==
    LET r == clone(Call(nodes), target, 1)
    IN /\ copy = 0
       /\ nodes[target].kind = "Port" \/ nodes[target].name \in {"root", "sub"}
       /\ err' = r.err
       /\ nodes' = r.h
       /\ copy' = r.ret
       /\ clone_of' = r.m
       /\ base' = Len(nodes)
       /\ last' = [op |-> "clone", on |-> target, arg |-> Zero]
       /\ UNCHANGED <<port, args, nops>>

TreeNext ==
    \/ \E parent \in {1, 2} : TAdd(parent)
    \/ \E parent \in {1, 2}, anchor \in PortAnchors : TNewPort(parent, anchor)
    \/ \E target \in 1..Len(nodes) : TClone(target)

SpecTree == TreeInit /\ [][TreeNext]_vars

-----------------------------------------------------------------------------
(* Vocabulary of the properties *)

\* self[label]: the child added under label
Child(h, self, label) ==
    h[self].children[CHOOSE i \in 1..Len(h[self].labels) : h[self].labels[i] = label]

\* The facing of a sub-frame: from its middle particle to its top particle
FrameDirection(h, sub) ==
    unit_vector(VSub(h[Child(h, sub, "top")].pos, h[Child(h, sub, "middle")].pos))

Range(f) == {f[i] : i \in DOMAIN f}

\* The nodes owned by the nodes of xs, through children
RECURSIVE Subtrees(_, _)
Subtrees(h, xs) ==
    LET more == xs \cup UNION {Range(h[x].children) : x \in xs}
    IN IF more = xs THEN xs ELSE Subtrees(h, more)

Subtree(h, x) == Subtrees(h, {x})

\* The nodes a clone of the nodes of xs has to copy: through children and anchors
RECURSIVE Reached(_, _)
Reached(h, xs) ==
    LET more == xs \cup UNION {Range(h[x].children) \cup ({h[x].anchor} \ {0}) : x \in xs}
    IN IF more = xs THEN xs ELSE Reached(h, more)

\* What a holder of Port p can observe or change through it
Owned(h, p) == Subtree(h, p) \cup ({h[p].anchor} \ {0})

IndexIn(seq, x) == CHOOSE i \in 1..Len(seq) : seq[i] = x

\* The child positions leading from top down to x, a node of the subtree of top
RECURSIVE Path(_, _, _)
Path(h, top, x) ==
    IF x = top THEN <<>>
    ELSE Append(Path(h, top, h[x].parent), IndexIn(h[h[x].parent].children, x))

RECURSIVE NodeAt(_, _, _)
NodeAt(h, top, path) ==
    IF path = <<>> THEN top
    ELSE NodeAt(h, h[top].children[Head(path)], Tail(path))

Built == last.op = "Port" /\ err = "none"
Given == Orient(args.orientation)
Antiparallel == unit_vector(Given) = VNeg(default_direction)

-----------------------------------------------------------------------------
(* Properties *)

\* C1: a freshly constructed Port faces along its orientation: direction, i.e.
\* unit_vector(P[1] - P[0]) over the flattened particle sequence, equals
\* unit_vector(orientation) in each of the three alignment branches.
C1_DirectionAlongOrientation ==
    Built => direction(nodes, port) = unit_vector(Given)

C1_Witness ==
    /\ Built
    /\ args.orientation = V(3, 12, 4)
    /\ direction(nodes, port) = <<Q(3, 13), Q(12, 13), Q(4, 13)>>

\* C2: when construction finishes, the facing of "up" (top - middle) and the
\* facing of "down" are exactly opposite, whichever branch was taken.
C2_UpDownOpposite ==
    Built => FrameDirection(nodes, Child(nodes, port, "up"))
               = VNeg(FrameDirection(nodes, Child(nodes, port, "down")))

C2_Witness ==
    /\ Built
    /\ Antiparallel
    /\ FrameDirection(nodes, Child(nodes, port, "up")) = V(0, -1, 0)
    /\ FrameDirection(nodes, Child(nodes, port, "down")) = V(0, 1, 0)

\* C3: after construction the center, the mean of all eight ghost positions, is
\* anchor.pos + separation * unit_vector(orientation), with the origin in place
\* of anchor.pos when no anchor was given.
C3_CenterAtAnchorPlusSeparation ==
    Built =>
        /\ Len(xyz_with_ports(nodes, port)) = 8
        /\ center(nodes, port)
             = VAdd(IF args.anchor # 0 THEN nodes[args.anchor].pos ELSE Zero,
                    VScale(args.separation, unit_vector(Given)))

C3_Witness ==
    /\ Built
    /\ args.anchor = 0
    /\ args.separation = QInt(-3)
    /\ args.orientation = V(3, 4, 0)
    /\ center(nodes, port) = <<Q(-9, 5), Q(-12, 5), QInt(0)>>

\* C5: translate_to(p) on a Port in any reached state, then center, gives p.
C5_TranslateToCenter ==
    (last.op = "translate_to" /\ err = "none") => center(nodes, last.on) = last.arg

C5_Witness ==
    /\ last.op = "translate_to"
    /\ err = "none"
    /\ nops > 1
    /\ last.arg = V(-5, 7, 2)
    /\ center(nodes, last.on) = V(-5, 7, 2)
    /\ direction(nodes, last.on) # unit_vector(Given)

\* C6: construction raises DegenerateVectorError exactly when the orientation
\* is the zero vector; for every other orientation, parallel and antiparallel
\* to (0,1,0) included, it returns a Port (no rotation about a zero axis, which
\* would raise, is requested).
C6_FailsOnlyOnZero ==
    last.op = "Port" =>
        /\ err = "DegenerateVectorError" <=> Degenerate(Given)
        /\ err = "none" <=> ~Degenerate(Given)
        /\ err = "none" <=> port # 0

C6_Witness ==
    /\ Built
    /\ port # 0
    /\ args.orientation = V(0, -1, 0)

\* C7: a clone shares nothing with its source: the nodes reachable from the
\* clone (its sub-frames, their particles, its anchor) and those reachable from
\* the original are distinct instances, a call on the clone leaves every node of
\* the original as it was, and a call on the original leaves the clone as it was.
C7_Distinct ==
    copy # 0 => Owned(nodes, port) \cap Owned(nodes, copy) = {}

C7_Frame ==
    (copy # 0 /\ copy' = copy) =>
        /\ last'.on = copy => \A n \in Owned(nodes, port) : nodes'[n] = nodes[n]
        /\ last'.on = port => \A n \in Owned(nodes, copy) : nodes'[n] = nodes[n]

C7_CloneIndependent == [](C7_Distinct) /\ [][C7_Frame]_vars

C7_Witness ==
    /\ copy # 0
    /\ last.on = copy
    /\ last.op = "rotate"
    /\ err = "none"
    /\ args.anchor # 0
    /\ xyz_with_ports(nodes, copy) # xyz_with_ports(nodes, port)

\* C9: clone(p) reproduces p as it is when cloned: the same "used", the children
\* up then down, each with middle, top, left, right at the same positions, and
\* so the same center and direction.
C9_CloneReproduces ==
    (last.op = "clone" /\ err = "none") =>
        /\ nodes[copy].used = nodes[port].used
        /\ nodes[copy].kind = "Port" /\ nodes[copy].name = nodes[port].name
        /\ nodes[copy].labels = <<"up", "down">>
        /\ Len(nodes[copy].children) = 2
        /\ \A i \in 1..2 :
             LET c == nodes[copy].children[i]
                 o == nodes[port].children[i]
             IN /\ c # o
                /\ nodes[c].name = nodes[o].name
                /\ nodes[c].labels = <<"middle", "top", "left", "right">>
                /\ Len(nodes[c].children) = 4
                /\ \A j \in 1..4 :
                     /\ nodes[nodes[c].children[j]].pos = nodes[nodes[o].children[j]].pos
                     /\ nodes[nodes[c].children[j]].name = nodes[nodes[o].children[j]].name
                     /\ nodes[nodes[c].children[j]].kind = "Particle"
        /\ xyz_with_ports(nodes, copy) = xyz_with_ports(nodes, port)
        /\ center(nodes, copy) = center(nodes, port)
        /\ direction(nodes, copy) = direction(nodes, port)

C9_Witness ==
    /\ last.op = "clone"
    /\ err = "none"
    /\ nodes[port].used
    /\ nodes[copy].used
    /\ direction(nodes, copy) # unit_vector(Given)

\* C10: after construction and any rotate, translate or translate_to of the
\* whole Port, "down" is still opposite to "up" and direction is the facing of
\* "up"; translate and translate_to leave direction as it was.
C10_Faces ==
    \A p \in Held :
        /\ FrameDirection(nodes, Child(nodes, p, "up"))
             = VNeg(FrameDirection(nodes, Child(nodes, p, "down")))
        /\ direction(nodes, p) = FrameDirection(nodes, Child(nodes, p, "up"))

C10_Shift ==
    (port # 0 /\ port' = port /\ last'.op \in {"translate", "translate_to"}) =>
        direction(nodes', port) = direction(nodes, port)

C10_DirectionTracksUp == [](C10_Faces) /\ [][C10_Shift]_vars

C10_Witness ==
    /\ port # 0
    /\ nops > 1
    /\ last.op = "translate_to"
    /\ last.on = port
    /\ err = "none"
    /\ direction(nodes, port) # unit_vector(Given)
    /\ direction(nodes, port) = FrameDirection(nodes, Child(nodes, port, "up"))

-----------------------------------------------------------------------------
(* Properties of clone() on trees *)

Cloned == last.op = "clone" /\ err = "none"

\* C4: the anchor of a cloned Port is never the anchor of the original.  For a
\* Port of the cloned subtree whose anchor is in that subtree, it is the node
\* at the anchor's place in the new tree, with the same name and position; for
\* an anchor outside the subtree it is a new node, in neither tree.
C4_AnchorRemapped ==
    Cloned =>
        /\ \A p \in PortsOf(nodes) \cap DOMAIN clone_of :
             nodes[p].anchor # 0 =>
                /\ nodes[clone_of[p]].anchor # nodes[p].anchor
                /\ nodes[clone_of[p]].anchor > base
        /\ \A p \in PortsOf(nodes) \cap Subtree(nodes, last.on) :
             LET a == nodes[p].anchor
                 q == NodeAt(nodes, copy, Path(nodes, last.on, p))
                 b == nodes[q].anchor
             IN /\ q > base
                /\ nodes[q].kind = "Port"
                /\ a = 0 <=> b = 0
                /\ a # 0 =>
                     /\ b # a
                     /\ b > base
                     /\ nodes[b].name = nodes[a].name
                     /\ nodes[b].pos = nodes[a].pos
                     /\ nodes[b].kind = nodes[a].kind
                     /\ IF a \in Subtree(nodes, last.on)
                        THEN /\ b \in Subtree(nodes, copy)
                             /\ Path(nodes, copy, b) = Path(nodes, last.on, a)
                        ELSE b \notin Subtree(nodes, copy)

C4_Witness ==
    /\ Cloned
    /\ last.on = 1
    /\ \E p \in PortsOf(nodes) \cap Subtree(nodes, 1) :
          /\ p < base
          /\ nodes[p].anchor = 3
          /\ 3 \in Subtree(nodes, 1)
          /\ IndexIn(nodes[nodes[p].parent].children, p) = 1
          /\ nodes[clone_of[p]].anchor \in Subtree(nodes, copy)
    /\ \E p \in PortsOf(nodes) \cap Subtree(nodes, 1) :
          /\ nodes[p].anchor = 4
          /\ nodes[clone_of[p]].anchor \notin Subtree(nodes, copy)

\* C8: clone() of a subtree returns, and makes exactly one copy of every node
\* it reaches through children and anchors: the identity map is one-to-one from
\* the reached nodes onto the new nodes, and every child and anchor reference
\* of a copy is the mapped counterpart of the original's reference, also when
\* Ports share an anchor or an anchor is a node whose copy is under way.
C8_OneCopyEach ==
    last.op = "clone" =>
        /\ err = "none"
        /\ DOMAIN clone_of = Reached(nodes, {last.on}) \cap 1..base
        /\ Reached(nodes, {last.on}) \subseteq 1..base
        /\ Range(clone_of) = (base + 1)..Len(nodes)
        /\ Cardinality(DOMAIN clone_of) = Len(nodes) - base
        /\ copy = clone_of[last.on]
        /\ \A x \in DOMAIN clone_of :
             /\ Len(nodes[clone_of[x]].children) = Len(nodes[x].children)
             /\ \A i \in 1..Len(nodes[x].children) :
                  nodes[clone_of[x]].children[i] = clone_of[nodes[x].children[i]]
             /\ nodes[clone_of[x]].anchor
                  = IF nodes[x].anchor = 0 THEN 0 ELSE clone_of[nodes[x].anchor]

C8_Witness ==
    /\ Cloned
    /\ \E p, q \in PortsOf(nodes) \cap 1..base :
          /\ p # q
          /\ nodes[p].anchor = 1
          /\ nodes[q].anchor = 1
          /\ nodes[p].parent = 2
          /\ last.on = p
          /\ nodes[clone_of[p]].anchor = nodes[clone_of[q]].anchor
          /\ nodes[clone_of[p]].parent = clone_of[2]

====
